---- MODULE Spec2Model ----
(***************************************************************************)
(* A model of main.py of the ONNX PaddleOCR API: the /ocr and /healthz     *)
(* endpoints, run_ocr_from_path / run_ocr_from_bytes, the single shared    *)
(* engine `ocr` behind `_ocr_lock`, and _format_results.                   *)
(*                                                                         *)
(* Every request (an HTTP request handled on its own worker thread, or a   *)
(* direct caller of run_ocr_from_path) is one process of the model.  The   *)
(* third-party engine is a black box: a deterministic function of the     *)
(* decoded image that returns, raises or never returns, computed from the  *)
(* image currently loaded into the one shared engine object.               *)
(***************************************************************************)
EXTENDS Integers, Sequences, FiniteSets, TLC

\* ------------------------------------------------------------------ bounds

\* number of concurrent requests / callers
NumReq == 2
\* _format_results inputs: at most MaxGroups groups of at most MaxEntries entries
MaxGroups == 3
MaxEntries == 2

Reqs == 1..NumReq

\* ------------------------------------------------------------ value model

\* A number is a tagged value, so that float() is a real conversion.
IntNum(n) == [t |-> "int", v |-> n]
FltNum(n) == [t |-> "float", v |-> n]
\* float(x): an int or a float becomes the float of the same value
Float(x) == [t |-> "float", v |-> x.v]

\* Engine entries: <<box, <<text, score>>>>, box = four <<x, y>> points.
BoxA == << <<IntNum(0), IntNum(0)>>, <<IntNum(4), IntNum(0)>>, <<IntNum(4), IntNum(2)>>, <<IntNum(0), IntNum(2)>> >>
BoxB == << <<FltNum(1), FltNum(5)>>, <<FltNum(7), FltNum(5)>>, <<FltNum(7), FltNum(9)>>, <<FltNum(1), FltNum(9)>> >>
EntryA == << BoxA, << "HELLO", FltNum(9) >> >>
EntryB == << BoxB, << "WORLD", IntNum(1) >> >>
Entries == {EntryA, EntryB}

\* sequences over S of length 0..n
RECURSIVE SeqUpTo(_, _)
SeqUpTo(S, n) ==
    IF n = 0 THEN { <<>> }
    ELSE LET shorter == SeqUpTo(S, n - 1)
         IN  shorter \cup { Append(s, e) : s \in { x \in shorter : Len(x) = n - 1 }, e \in S }

\* the engine-native nested outputs _format_results is applied to
RawInputs == SeqUpTo(SeqUpTo(Entries, MaxEntries), MaxGroups)

\* ------------------------------------------------------- _format_results

\* the record appended for one entry (lines 62-68)
Detection(entry) ==
    [ text  |-> entry[2][1],
      score |-> Float(entry[2][2]),
      box   |-> [ k \in 1..Len(entry[1]) |->
                    << Float(entry[1][k][1]), Float(entry[1][k][2]) >> ] ]

\* inner loop: `for box, (text, score) in detections: formatted.append(...)`
RECURSIVE FormatGroup(_, _, _)
FormatGroup(detections, i, formatted) ==
    IF i > Len(detections) THEN formatted
    ELSE FormatGroup(detections, i + 1, Append(formatted, Detection(detections[i])))

\* outer loop: `for detections in raw`
RECURSIVE FormatLoop(_, _, _)
FormatLoop(raw_, g, formatted) ==
    IF g > Len(raw_) THEN formatted
    ELSE FormatLoop(raw_, g + 1, FormatGroup(raw_[g], 1, formatted))

\* a normalizer that keeps only the first entry of every group
FormatResults_FirstOnly(raw_) ==
    LET nonempty == SelectSeq(raw_, LAMBDA d : Len(d) > 0)
    IN  [ k \in 1..Len(nonempty) |-> Detection(nonempty[k][1]) ]

FormatResults(raw_) == FormatLoop(raw_, 1, <<>>)

\* ------------------------------------------------------------- the inputs

\* Upload bodies / file contents: byte strings, as sequences of tokens.
\* A decodable image is a recognised header followed by its pixel payload.
EmptyBytes  == <<>>
TextBytes   == << "hello", "txt" >>
PngA        == << "PNG", "A" >>
PngB        == << "PNG", "B" >>
PngRt       == << "PNG", "R" >>
PngVal      == << "PNG", "V" >>
PngHang     == << "PNG", "H" >>
Uploads == { EmptyBytes, TextBytes, PngA, PngB, PngRt, PngVal, PngHang }

\* file.content_type: None, or a string (a sequence of tokens)
NoCT     == [ none |-> TRUE,  s |-> <<>> ]
ImageCT  == [ none |-> FALSE, s |-> << "image/", "png" >> ]
TextCT   == [ none |-> FALSE, s |-> << "text/", "plain" >> ]
ContentTypes == { NoCT, ImageCT, TextCT }

\* the file system run_ocr_from_path reads: path -> content, or no such file
Missing == << "ENOENT" >>
Paths == { "missing.png", "sample.png", "empty.png" }
FileSystem(p) ==
    CASE p = "sample.png" -> PngA
      [] p = "empty.png"  -> EmptyBytes
      [] OTHER            -> Missing

\* cv2.imdecode: the pixel buffer, or None when the bytes are no image
NoneImg == "None"
Imdecode(b) == IF Len(b) = 2 /\ b[1] = "PNG" THEN b[2] ELSE NoneImg

\* ocr.ocr(img) on the engine's loaded image: deterministic per image
NoRaw == <<>>
EngineReturns(raw_) == [ kind |-> "return", raw |-> raw_, exc |-> "", msg |-> <<>> ]
EngineRaises(e, m)  == [ kind |-> "raise", raw |-> NoRaw, exc |-> e, msg |-> m ]
EngineHangs         == [ kind |-> "hang", raw |-> NoRaw, exc |-> "", msg |-> <<>> ]
OcrEngine(pixels) ==
    CASE pixels = "A" -> EngineReturns(<< << EntryA, EntryB >> >>)
      [] pixels = "B" -> EngineReturns(<< <<>> >>)
      [] pixels = "R" -> EngineRaises("RuntimeError", << "inference failed" >>)
      [] pixels = "V" -> EngineRaises("ValueError", << "bad tensor shape" >>)
      [] pixels = "H" -> EngineHangs
      [] OTHER        -> EngineRaises("RuntimeError", << "no image loaded" >>)

\* ------------------------------------------------------------------ state

VARIABLES
    pc,            \* where each request is: idle, healthz, decode, lock, engine, format, done
    kind,          \* what it is: "ocr" (POST /ocr), "path" (run_ocr_from_path), "healthz"
    content_type,  \* file.content_type of a POST /ocr
    upload,        \* the body of the uploaded file, as sent
    image_path,    \* the argument of run_ocr_from_path
    image_bytes,   \* the bytes read from the upload or the file
    img,           \* the decoded pixel buffer (local of run_ocr_from_bytes)
    raw,           \* the engine's result (local of run_ocr_from_bytes)
    response,      \* the responses / outcomes delivered to the request's caller
    ocr_lock,      \* _ocr_lock: 0 when free, else the request that acquired it
    ocr,           \* the image loaded into the one shared engine object
    hist,          \* per request: what it has done so far (history only)
    fmt_pc, fmt_raw, fmt_resp   \* _format_results applied to an arbitrary engine output

vars == << pc, kind, content_type, upload, image_path, image_bytes, img, raw, response,
           ocr_lock, ocr, hist, fmt_pc, fmt_raw, fmt_resp >>

reqvars == << pc, kind, content_type, upload, image_path, image_bytes, img, raw, response,
              ocr_lock, ocr, hist >>
fmtvars == << fmt_pc, fmt_raw, fmt_resp >>

Free == 0
Idle == "idle"
NoResp == [ kind |-> "none", status |-> 0, exc |-> "", detail |-> <<>>,
            detections |-> <<>>, health |-> "" ]
NoHist == [ read |-> FALSE, decoded |-> FALSE, acquired |-> 0, calls |-> 0, engine |-> "none" ]

ReqInit ==
    /\ pc = [ r \in Reqs |-> "idle" ]
    /\ kind = [ r \in Reqs |-> "none" ]
    /\ content_type = [ r \in Reqs |-> NoCT ]
    /\ upload = [ r \in Reqs |-> EmptyBytes ]
    /\ image_path = [ r \in Reqs |-> "" ]
    /\ image_bytes = [ r \in Reqs |-> EmptyBytes ]
    /\ img = [ r \in Reqs |-> NoneImg ]
    /\ raw = [ r \in Reqs |-> NoRaw ]
    /\ response = [ r \in Reqs |-> <<>> ]
    /\ ocr_lock = Free
    /\ ocr = Idle
    /\ hist = [ r \in Reqs |-> NoHist ]

Init ==
    /\ ReqInit
    /\ fmt_pc = "off"
    /\ fmt_raw = NoRaw
    /\ fmt_resp = NoResp

\* -------------------------------------------------------------- responses

\* raise HTTPException(status_code=..., detail=...)
HttpError(status, detail) ==
    [ kind |-> "http", status |-> status, exc |-> "HTTPException", detail |-> detail,
      detections |-> <<>>, health |-> "" ]

\* return {"detections": detections}
OkResponse(detections) ==
    [ kind |-> "http", status |-> 200, exc |-> "", detail |-> <<>>,
      detections |-> detections, health |-> "" ]

\* return {"status": "ok"}
HealthResponse ==
    [ kind |-> "http", status |-> 200, exc |-> "", detail |-> <<>>,
      detections |-> <<>>, health |-> "ok" ]

\* a direct caller of run_ocr_from_path gets the list, or the exception
Returned(detections) ==
    [ kind |-> "return", status |-> 0, exc |-> "", detail |-> <<>>,
      detections |-> detections, health |-> "" ]
Propagated(exc, msg) ==
    [ kind |-> "raise", status |-> 0, exc |-> exc, detail |-> msg,
      detections |-> <<>>, health |-> "" ]

\* the except chain of ocr_endpoint; str(exc) is the message.  (The first
\* clause re-raises an HTTPException unchanged; run_ocr_from_bytes raises none.)
HandleException(exc, msg) ==
    CASE exc = "FileNotFoundError" -> HttpError(400, msg)
      [] exc = "ValueError"        -> HttpError(400, msg)
      [] OTHER                     -> HttpError(500, << "OCR failed: " >> \o msg)

\* what the caller of request r sees when run_ocr_from_bytes raises / returns
RaiseOutcome(r, k, exc, msg) ==
    IF k = "ocr" THEN HandleException(exc, msg) ELSE Propagated(exc, msg)
ReturnOutcome(r, detections) ==
    IF kind[r] = "ocr" THEN OkResponse(detections) ELSE Returned(detections)

\* ---------------------------------------------------------------- actions

\* request r ends: its caller gets `outcome`
Finish(r, outcome) ==
    /\ pc' = [ pc EXCEPT ![r] = "done" ]
    /\ response' = [ response EXCEPT ![r] = Append(@, outcome) ]

\* `if file.content_type and not file.content_type.startswith("image/")`
NotAnImage_Never(ct) == FALSE

NotAnImage(ct) ==
    /\ ~ct.none
    /\ Len(ct.s) > 0
    /\ ~(ct.s[1] = "image/")

\* `if not image_bytes`
IsEmpty_Never(b) == FALSE

IsEmpty(b) == Len(b) = 0

\* entry of run_ocr_from_bytes(b) for request r of kind k: the empty check
RunOcrFromBytes(r, k, b) ==
    IF IsEmpty(b)
    THEN Finish(r, RaiseOutcome(r, k, "ValueError", << "Empty image data" >>))
    ELSE /\ pc' = [ pc EXCEPT ![r] = "decode" ]
         /\ UNCHANGED response

\* POST /ocr arrives with content type ct and body b: the content-type check,
\* file.file.read(), and the call of run_ocr_from_bytes up to the decode
StartOcr(r, ct, b) ==
    /\ pc[r] = "idle"
    /\ kind' = [ kind EXCEPT ![r] = "ocr" ]
    /\ content_type' = [ content_type EXCEPT ![r] = ct ]
    /\ upload' = [ upload EXCEPT ![r] = b ]
    /\ IF NotAnImage(ct)
       THEN /\ Finish(r, HttpError(400, << "Only image uploads are supported." >>))
            /\ UNCHANGED << image_bytes, hist >>
       ELSE /\ image_bytes' = [ image_bytes EXCEPT ![r] = b ]
            /\ hist' = [ hist EXCEPT ![r].read = TRUE ]
            /\ RunOcrFromBytes(r, "ocr", b)
    /\ UNCHANGED << image_path, img, raw, ocr_lock, ocr, fmtvars >>

\* run_ocr_from_path(p) is called: the exists check, read_bytes, and the call
\* of run_ocr_from_bytes up to the decode
StartPath(r, p) ==
    /\ pc[r] = "idle"
    /\ kind' = [ kind EXCEPT ![r] = "path" ]
    /\ image_path' = [ image_path EXCEPT ![r] = p ]
    /\ IF FileSystem(p) = Missing
       THEN /\ Finish(r, Propagated("FileNotFoundError", << "Image not found: ", p >>))
            /\ UNCHANGED << image_bytes, hist >>
       ELSE /\ image_bytes' = [ image_bytes EXCEPT ![r] = FileSystem(p) ]
            /\ hist' = [ hist EXCEPT ![r].read = TRUE ]
            /\ RunOcrFromBytes(r, "path", FileSystem(p))
    /\ UNCHANGED << content_type, upload, img, raw, ocr_lock, ocr, fmtvars >>

\* GET /healthz arrives
StartHealthz(r) ==
    /\ pc[r] = "idle"
    /\ kind' = [ kind EXCEPT ![r] = "healthz" ]
    /\ pc' = [ pc EXCEPT ![r] = "healthz" ]
    /\ UNCHANGED << content_type, upload, image_path, image_bytes, img, raw, response,
                    ocr_lock, ocr, hist, fmtvars >>

\* a healthz that would wait for the engine lock
HealthzReturn_NeedsLock(r) ==
    /\ pc[r] = "healthz"
    /\ ocr_lock = Free
    /\ Finish(r, HealthResponse)
    /\ UNCHANGED << kind, content_type, upload, image_path, image_bytes, img, raw,
                    ocr_lock, ocr, hist, fmtvars >>

\* healthz(): return {"status": "ok"}
HealthzReturn(r) ==
    /\ pc[r] = "healthz"
    /\ Finish(r, HealthResponse)
    /\ UNCHANGED << kind, content_type, upload, image_path, image_bytes, img, raw,
                    ocr_lock, ocr, hist, fmtvars >>

\* img = cv2.imdecode(...); if img is None: raise ValueError
Decode(r) ==
    /\ pc[r] = "decode"
    /\ img' = [ img EXCEPT ![r] = Imdecode(image_bytes[r]) ]
    /\ hist' = [ hist EXCEPT ![r].decoded = TRUE ]
    /\ IF Imdecode(image_bytes[r]) = NoneImg
       THEN Finish(r, RaiseOutcome(r, kind[r], "ValueError", << "Failed to decode image" >>))
       ELSE /\ pc' = [ pc EXCEPT ![r] = "lock" ]
            /\ UNCHANGED response
    /\ UNCHANGED << kind, content_type, upload, image_path, image_bytes, raw, ocr_lock, ocr, fmtvars >>

\* entering the engine without waiting for the lock
Acquire_NoWait(r) ==
    /\ pc[r] = "lock"
    /\ ocr_lock' = r
    /\ ocr' = img[r]
    /\ pc' = [ pc EXCEPT ![r] = "engine" ]
    /\ hist' = [ hist EXCEPT ![r].acquired = @ + 1, ![r].calls = @ + 1 ]
    /\ UNCHANGED << kind, content_type, upload, image_path, image_bytes, img, raw, response, fmtvars >>

\* a bounded wait: a request that finds the lock taken gives up with "Busy"
Acquire_OrTimeout(r) ==
    /\ pc[r] = "lock"
    /\ IF ocr_lock = Free
       THEN /\ ocr_lock' = r
            /\ ocr' = img[r]
            /\ pc' = [ pc EXCEPT ![r] = "engine" ]
            /\ hist' = [ hist EXCEPT ![r].acquired = @ + 1, ![r].calls = @ + 1 ]
            /\ UNCHANGED response
       ELSE /\ Finish(r, RaiseOutcome(r, kind[r], "TimeoutError", << "Busy" >>))
            /\ UNCHANGED << ocr_lock, ocr, hist >>
    /\ UNCHANGED << kind, content_type, upload, image_path, image_bytes, img, raw, fmtvars >>

\* `with _ocr_lock:` is entered and ocr.ocr(img) is called: the engine loads img
Acquire(r) ==
    /\ pc[r] = "lock"
    /\ ocr_lock = Free
    /\ ocr_lock' = r
    /\ ocr' = img[r]
    /\ pc' = [ pc EXCEPT ![r] = "engine" ]
    /\ hist' = [ hist EXCEPT ![r].acquired = @ + 1, ![r].calls = @ + 1 ]
    /\ UNCHANGED << kind, content_type, upload, image_path, image_bytes, img, raw, response, fmtvars >>

\* the exit of the `with` block, on return and on exception alike
Release ==
    /\ ocr_lock' = Free
    /\ ocr' = Idle

\* a return from the engine that keeps the lock while the result is formatted
EngineReturn_KeepLock(r) ==
    /\ pc[r] = "engine"
    /\ OcrEngine(ocr).kind = "return"
    /\ raw' = [ raw EXCEPT ![r] = OcrEngine(ocr).raw ]
    /\ hist' = [ hist EXCEPT ![r].engine = "returned" ]
    /\ pc' = [ pc EXCEPT ![r] = "format" ]
    /\ UNCHANGED << ocr_lock, ocr >>
    /\ UNCHANGED << kind, content_type, upload, image_path, image_bytes, img, response, fmtvars >>

\* ocr.ocr(img) returns: raw is bound, the lock is released
EngineReturn(r) ==
    /\ pc[r] = "engine"
    /\ OcrEngine(ocr).kind = "return"
    /\ raw' = [ raw EXCEPT ![r] = OcrEngine(ocr).raw ]
    /\ hist' = [ hist EXCEPT ![r].engine = "returned" ]
    /\ pc' = [ pc EXCEPT ![r] = "format" ]
    /\ Release
    /\ UNCHANGED << kind, content_type, upload, image_path, image_bytes, img, response, fmtvars >>

\* an exception that leaves the `with` block without releasing the lock
EngineRaise_NoRelease(r) ==
    /\ pc[r] = "engine"
    /\ OcrEngine(ocr).kind = "raise"
    /\ hist' = [ hist EXCEPT ![r].engine = "raised" ]
    /\ Finish(r, RaiseOutcome(r, kind[r], OcrEngine(ocr).exc, OcrEngine(ocr).msg))
    /\ UNCHANGED << ocr_lock, ocr >>
    /\ UNCHANGED << kind, content_type, upload, image_path, image_bytes, img, raw, fmtvars >>

\* ocr.ocr(img) raises: the lock is released, the exception reaches the caller
EngineRaise(r) ==
    /\ pc[r] = "engine"
    /\ OcrEngine(ocr).kind = "raise"
    /\ hist' = [ hist EXCEPT ![r].engine = "raised" ]
    /\ Finish(r, RaiseOutcome(r, kind[r], OcrEngine(ocr).exc, OcrEngine(ocr).msg))
    /\ Release
    /\ UNCHANGED << kind, content_type, upload, image_path, image_bytes, img, raw, fmtvars >>

\* a result kept in a variable shared by all requests: the one formatted is
\* whichever request's engine result was stored
Format_SharedRaw(r) ==
    /\ pc[r] = "format"
    /\ \E q \in Reqs :
          /\ hist[q].engine = "returned"
          /\ Finish(r, ReturnOutcome(r, FormatResults(raw[q])))
    /\ UNCHANGED << kind, content_type, upload, image_path, image_bytes, img, raw,
                    ocr_lock, ocr, hist, fmtvars >>

\* return _format_results(raw), and the endpoint's {"detections": detections}
Format(r) ==
    /\ pc[r] = "format"
    /\ Finish(r, ReturnOutcome(r, FormatResults(raw[r])))
    /\ UNCHANGED << kind, content_type, upload, image_path, image_bytes, img, raw,
                    ocr_lock, ocr, hist, fmtvars >>

Next ==
    \/ \E r \in Reqs, ct \in ContentTypes, b \in Uploads : StartOcr(r, ct, b)
    \/ \E r \in Reqs, p \in Paths : StartPath(r, p)
    \/ \E r \in Reqs : StartHealthz(r)
    \/ \E r \in Reqs : HealthzReturn(r)
    \/ \E r \in Reqs : Decode(r)
    \/ \E r \in Reqs : Acquire(r)
    \/ \E r \in Reqs : EngineReturn(r)
    \/ \E r \in Reqs : EngineRaise(r)
    \/ \E r \in Reqs : Format(r)

Spec == Init /\ [][Next]_vars

\* A request that has arrived keeps running: its thread is scheduled, and a
\* thread blocked on a lock that stays free acquires it.  Arrival is not forced.
Proceed(r) ==
    \/ HealthzReturn(r)
    \/ Decode(r)
    \/ Acquire(r)
    \/ EngineReturn(r)
    \/ EngineRaise(r)
    \/ Format(r)

FairSpec == Spec /\ \A r \in Reqs : WF_vars(Proceed(r))

\* ------------------------------------- _format_results on arbitrary outputs

FmtInit ==
    /\ ReqInit
    /\ fmt_pc = "ready"
    /\ fmt_raw \in RawInputs
    /\ fmt_resp = NoResp

\* the engine returned fmt_raw: _format_results and the endpoint's return
FmtApply ==
    /\ fmt_pc = "ready"
    /\ fmt_resp' = OkResponse(FormatResults(fmt_raw))
    /\ fmt_pc' = "applied"
    /\ UNCHANGED << fmt_raw, reqvars >>

FmtNext == FmtApply

FmtSpec == FmtInit /\ [][FmtNext]_vars

\* ================================================================ claims

InEngine == { r \in Reqs : pc[r] = "engine" }

\* the engine call in progress never returns
EngineStuck == \E q \in Reqs : pc[q] = "engine" /\ OcrEngine(ocr).kind = "hang"

\* C1: at most one request is inside ocr.ocr(img) on the shared engine, for
\* /ocr requests and run_ocr_from_path callers alike.
C1_MutualExclusion == Cardinality(InEngine) <= 1

\* one request is inside the engine while another, of the other kind, waits
C1_Witness ==
    \E r, q \in Reqs :
        /\ pc[r] = "engine" /\ pc[q] = "lock"
        /\ kind[r] = "ocr" /\ kind[q] = "path"

\* C2: once a request has left the engine call, by return or by exception,
\* it does not hold the lock; no finished request holds it; and with nobody
\* in the engine a waiting request can acquire it.
C2_LockReleased ==
    /\ \A r \in Reqs : hist[r].engine \in { "returned", "raised" } => ocr_lock # r
    /\ \A r \in Reqs : pc[r] = "done" => ocr_lock # r
    /\ \A q \in Reqs : (pc[q] = "lock" /\ InEngine = {}) => ENABLED Acquire(q)

\* a request was answered 500 after the engine raised, and a later one got in
C2_Witness ==
    \E r, q \in Reqs :
        /\ hist[r].engine = "raised" /\ pc[r] = "done"
        /\ Len(response[r]) = 1 /\ response[r][1].status = 500
        /\ pc[q] = "engine" /\ ocr_lock = q

\* C3: whenever the engine call of a POST /ocr raises, the answer is the 500
\* "OCR failed: <message>", never a 400, after one engine call.
C3_EngineFailureIs500 ==
    \A r \in Reqs :
        (kind[r] = "ocr" /\ hist[r].engine = "raised") =>
            /\ hist[r].calls = 1
            /\ response[r] =
                 << HttpError(500, << "OCR failed: " >>
                                   \o OcrEngine(Imdecode(upload[r])).msg) >>

\* C4 as stated: a zero-byte upload is answered 400 "Empty image data"
\* whatever the declared content type.
C4_EmptyAlwaysEmptyImageData ==
    \A r \in Reqs :
        (kind[r] = "ocr" /\ upload[r] = << >>) =>
            /\ pc[r] = "done"
            /\ response[r] = << HttpError(400, << "Empty image data" >>) >>
            /\ hist[r].calls = 0

\* C4 as amended: a zero-byte upload is answered 400 "Empty image data" when
\* the content type is absent or starts with image/, and 400 "Only image
\* uploads are supported." otherwise; the engine is never called for it.
C4_EmptyUpload ==
    \A r \in Reqs :
        (kind[r] = "ocr" /\ upload[r] = << >>) =>
            /\ pc[r] = "done"
            /\ hist[r].calls = 0 /\ hist[r].acquired = 0
            /\ content_type[r] \in { NoCT, ImageCT } =>
                 response[r] = << HttpError(400, << "Empty image data" >>) >>
            /\ content_type[r] = TextCT =>
                 response[r] = << HttpError(400, << "Only image uploads are supported." >>) >>

\* zero bytes were uploaded as image/png
C4_Witness ==
    \E r \in Reqs :
        /\ kind[r] = "ocr" /\ upload[r] = << >> /\ content_type[r] = ImageCT
        /\ pc[r] = "done"

\* C5: an upload whose content type is present and does not start with
\* "image/" is rejected with 400 "Only image uploads are supported."; its
\* body is never read or decoded, the lock never acquired, the engine never
\* called.
C5_NonImageRejectedFirst ==
    \A r \in Reqs :
        (kind[r] = "ocr" /\ ~content_type[r].none
            /\ content_type[r].s # << >> /\ content_type[r].s[1] # "image/") =>
            /\ pc[r] = "done"
            /\ response[r] = << HttpError(400, << "Only image uploads are supported." >>) >>
            /\ ~hist[r].read /\ ~hist[r].decoded
            /\ hist[r].acquired = 0 /\ hist[r].calls = 0
            /\ ocr_lock # r

\* a decodable image was uploaded as text/plain
C5_Witness ==
    \E r \in Reqs :
        /\ kind[r] = "ocr" /\ content_type[r] = TextCT /\ upload[r] = PngA
        /\ pc[r] = "done"

\* the number of entries in the groups before group g
RECURSIVE EntriesBefore(_, _)
EntriesBefore(raw_, g) ==
    IF g <= 1 THEN 0 ELSE EntriesBefore(raw_, g - 1) + Len(raw_[g - 1])

\* record d is entry e with every number made a float
IsDetectionOf(d, e) ==
    /\ d.text = e[2][1]
    /\ d.score.t = "float" /\ d.score.v = e[2][2].v
    /\ Len(d.box) = Len(e[1])
    /\ \A k \in 1..Len(e[1]) :
          /\ d.box[k][1].t = "float" /\ d.box[k][1].v = e[1][k][1].v
          /\ d.box[k][2].t = "float" /\ d.box[k][2].v = e[1][k][2].v

\* C6: _format_results returns one flat sequence of exactly K records, K the
\* total number of entries, in the order of the groups and of the entries in
\* each group; for K = 0 the response is {"detections": []}, not an error.
C6_FlatInOrder ==
    fmt_pc = "applied" =>
        LET out == fmt_resp.detections
            K   == EntriesBefore(fmt_raw, Len(fmt_raw) + 1)
        IN  /\ fmt_resp.kind = "http" /\ fmt_resp.status = 200
            /\ Len(out) = K
            /\ DOMAIN out = 1..K
            /\ \A g \in 1..Len(fmt_raw) : \A i \in 1..Len(fmt_raw[g]) :
                  IsDetectionOf(out[EntriesBefore(fmt_raw, g) + i], fmt_raw[g][i])
            /\ K = 0 => out = << >>

\* an empty group between two groups with entries has been normalized
C6_Witness ==
    /\ fmt_pc = "applied"
    /\ fmt_raw = << << EntryB, EntryA >>, << >>, << EntryA >> >>
    /\ Len(fmt_resp.detections) = 3

\* C7: a healthz request can complete in every state, whatever the lock and
\* the engine are doing, and its response is {"status": "ok"}.
C7_HealthzIndependent ==
    \A r \in Reqs :
        /\ pc[r] = "healthz" => ENABLED HealthzReturn(r)
        /\ (kind[r] = "healthz" /\ pc[r] = "done") => response[r] = << HealthResponse >>

\* healthz was answered while an engine call that never returns holds the lock
C7_Witness ==
    \E r, q \in Reqs :
        /\ kind[r] = "healthz" /\ pc[r] = "done"
        /\ pc[q] = "engine" /\ ocr_lock = q /\ EngineStuck

\* C8: a request holds the lock only while inside ocr.ocr(img); a request
\* that failed the empty check or the decode never acquired it; decode and
\* normalization are never blocked by the lock.
C8_LockOnlyInEngine ==
    \A r \in Reqs :
        /\ ocr_lock = r => pc[r] = "engine"
        /\ (pc[r] = "done" /\ hist[r].read /\ Imdecode(image_bytes[r]) = NoneImg) =>
              hist[r].acquired = 0
        /\ pc[r] = "decode" => ENABLED Decode(r)
        /\ pc[r] = "format" => ENABLED Format(r)

\* one request formats its result while another is inside the engine
C8_Witness ==
    \E r, q \in Reqs :
        /\ pc[r] = "format" /\ pc[q] = "engine" /\ ocr_lock = q

\* what the engine does for the bytes of request r alone
OwnOutcome(r) == OcrEngine(Imdecode(image_bytes[r]))

\* C9: every answer carries exactly what the engine produces for the
\* request's own bytes, under every interleaving; identical bytes get
\* identical detections.
C9_Isolation ==
    /\ \A r \in Reqs :
          /\ hist[r].engine = "returned" =>
                /\ OwnOutcome(r).kind = "return"
                /\ raw[r] = OwnOutcome(r).raw
          /\ hist[r].engine = "raised" => OwnOutcome(r).kind = "raise"
          /\ (hist[r].engine = "returned" /\ pc[r] = "done") =>
                /\ Len(response[r]) = 1
                /\ response[r][1].detections = FormatResults(OwnOutcome(r).raw)
    /\ \A r, q \in Reqs :
          (/\ pc[r] = "done" /\ pc[q] = "done"
           /\ hist[r].engine = "returned" /\ hist[q].engine = "returned"
           /\ image_bytes[r] = image_bytes[q]) =>
              response[r][1].detections = response[q][1].detections

\* two requests with different images have both been answered 200
C9_Witness ==
    \E r, q \in Reqs :
        /\ kind[r] = "ocr" /\ kind[q] = "ocr"
        /\ upload[r] = PngA /\ upload[q] = PngB
        /\ pc[r] = "done" /\ pc[q] = "done"
        /\ response[r][1].status = 200 /\ response[q][1].status = 200
        /\ response[r][1].detections # response[q][1].detections

\* request r still has its engine call ahead of it
NeedsEngine(r) ==
    \/ pc[r] = "lock"
    \/ pc[r] = "decode" /\ Imdecode(image_bytes[r]) # NoneImg

====
